---------------------------- MODULE Spec2Model ----------------------------
(***************************************************************************)
(* Model of python_backend/zai_service.py: a FastAPI facade over the       *)
(* external ZAIClient SDK.                                                 *)
(*                                                                         *)
(* Scheduling.  Every handler is an `async def` that contains no await, so *)
(* the event loop runs it from entry to return without switching: one      *)
(* action per handler.  The only coroutine that suspends is the async      *)
(* generator generate_stream, which yields once per event: one action per  *)
(* resumption.  While it is suspended the loop may serve /health.          *)
(*                                                                         *)
(* `cur` holds the locals of the request under observation (its inputs,    *)
(* the external calls it issued, its reply); Deliver discards them when    *)
(* the reply has been sent.  The process-wide state is zai_client.         *)
(*                                                                         *)
(* The external SDK (ZAIClient, get_preset) is the environment: each call  *)
(* returns one of a small set of values or raises.  Floating-point         *)
(* generation parameters are kept in tenths (0.7 is 7).  Timestamps taken  *)
(* from the event-loop clock are left out of the replies.                  *)
(***************************************************************************)
EXTENDS Integers, Sequences, FiniteSets, TLC

VARIABLES
    zai_client,     \* the global handle: NoClient or the id of a ZAIClient instance
    constructed,    \* how many times the ZAIClient constructor has returned
    started,        \* startup_event has run
    exited,         \* the process has terminated
    health,         \* the last /health reply
    cur             \* the request under observation

vars == <<zai_client, constructed, started, exited, health, cur>>

---------------------------------------------------------------------------
(* Bounds of the model *)

MaxMsgs == 2        \* longest inbound message list
MaxFrags == 2       \* longest fragment sequence of stream_completion
MaxConstructed == 3 \* cap on the constructor counter

---------------------------------------------------------------------------
(* Python values *)

None == "None"
NoClient == 0

\* dict.get(key, default)
Get(d, k, default) == IF k \in DOMAIN d THEN d[k] ELSE default

\* a mapping that holds key k exactly when has is true
Opt(k, has, v) == IF has THEN k :> v ELSE <<>>

\* outcome of a call into the SDK
Return(v) == [raised |-> FALSE, value |-> v]
Raise(msg) == [raised |-> TRUE, err |-> msg]

---------------------------------------------------------------------------
(* The global client handle *)

CtorError == "auth failed"

\* variant: the `if zai_client is None` test is missing
GetZaiClientAlwaysConstructs(ctorOk) ==
    IF ctorOk
    THEN [zai_client |-> constructed + 1, constructed |-> constructed + 1,
          raised |-> FALSE, ret |-> constructed + 1]
    ELSE [zai_client |-> NoClient, constructed |-> constructed,
          raised |-> TRUE, err |-> CtorError]

GetZaiClient(ctorOk) ==
    IF zai_client = NoClient
    THEN IF ctorOk
         THEN [zai_client |-> constructed + 1, constructed |-> constructed + 1,
               raised |-> FALSE, ret |-> constructed + 1]
         ELSE [zai_client |-> NoClient, constructed |-> constructed,
               raised |-> TRUE, err |-> CtorError]
    ELSE [zai_client |-> zai_client, constructed |-> constructed,
          raised |-> FALSE, ret |-> zai_client]

Idle == [endpoint |-> "idle"]
NoHealth == [status |-> "none"]

Init ==
    /\ zai_client = NoClient
    /\ constructed = 0
    /\ started = FALSE
    /\ exited = FALSE
    /\ health = NoHealth
    /\ cur = Idle

\* variant: the failure is not caught, and the failed startup ends the process
StartupExceptExits(err) == [started |-> FALSE, exited |-> TRUE]

\* except Exception as e (in startup_event): the failure is printed and
\* swallowed ("Don't exit here"), and the service starts
StartupExcept(err) == [started |-> TRUE, exited |-> FALSE]

\* startup_event, run by the framework before any request is served
Startup ==
    /\ ~started
    /\ ~exited
    /\ \E ctorOk \in BOOLEAN :
         LET g == GetZaiClient(ctorOk)
             end == IF g.raised THEN StartupExcept(g.err)
                    ELSE [started |-> TRUE, exited |-> FALSE]
         IN
           /\ zai_client' = g.zai_client
           /\ constructed' = g.constructed
           /\ started' = end.started
           /\ exited' = end.exited
    /\ UNCHANGED <<health, cur>>

\* the loop may run another handler: none is running, or the stream generator
\* is suspended at a yield
Suspended == cur.endpoint = "/chat-stream" /\ cur.gen \in {"created", "at_delta", "at_error"}
\* a /health reply is sent before the loop picks up the next callback
CanServe == started /\ health = NoHealth /\ constructed < MaxConstructed

HealthReply(g) ==
    IF g.raised
    THEN [status |-> "unhealthy", error |-> g.err]
    ELSE [status |-> "healthy", client_ready |-> (g.ret # NoClient)]

HealthCheck ==
    /\ CanServe
    /\ cur = Idle \/ Suspended
    /\ \E ctorOk \in BOOLEAN :
         LET g == GetZaiClient(ctorOk) IN
           /\ zai_client' = g.zai_client
           /\ constructed' = g.constructed
           /\ health' = HealthReply(g)
    /\ UNCHANGED <<started, exited, cur>>

---------------------------------------------------------------------------
(* Requests *)

\* ChatMessage values: role, content, optional timestamp
ChatMessages ==
    { [role |-> "user", content |-> "hi", timestamp |-> None],
      [role |-> "assistant", content |-> "yo", timestamp |-> "1700000000.5"] }

RECURSIVE SeqsUpTo(_, _)
SeqsUpTo(S, n) ==
    IF n = 0 THEN { <<>> }
    ELSE LET shorter == SeqsUpTo(S, n - 1) IN
           shorter \cup { Append(q, x) : q \in shorter, x \in S }

MessageLists == SeqsUpTo(ChatMessages, MaxMsgs)

\* the open configuration mapping: every key may be absent
PresetNames == { "creative", "precise", "full", "empty", "nope", "" }

Configs ==
    { Opt("model", a, "glm-4.5") @@ Opt("enableThinking", b, FALSE)
        @@ Opt("temperature", c, 2) @@ Opt("topP", d, 5)
        @@ Opt("maxTokens", e, 100) @@ p :
        a \in BOOLEAN, b \in BOOLEAN, c \in BOOLEAN, d \in BOOLEAN, e \in BOOLEAN,
        p \in { <<>> } \cup { [preset |-> n] : n \in PresetNames } }

ChatRequests == { [messages |-> m, config |-> c] : m \in MessageLists, c \in Configs }

---------------------------------------------------------------------------
(* The SDK's replies *)

\* an optional dict
Some(d) == [some |-> TRUE, v |-> d]
Nothing == [some |-> FALSE]

\* custom_models: the preset table and its lookup
PresetTable ==
    [creative |-> [temperature |-> 10, top_p |-> 3],
     precise  |-> [max_tokens |-> 500],
     full     |-> [temperature |-> 1, top_p |-> 4, max_tokens |-> 4000],
     empty    |-> <<>>]

get_preset(name) ==
    IF name \in DOMAIN PresetTable THEN Some(PresetTable[name]) ELSE Nothing

\* response objects: thinking and usage are attributes that may be missing
Responses ==
    { [content |-> "answer"],
      [content |-> "answer", thinking |-> "hmm", usage |-> Some([total_tokens |-> 42])],
      [content |-> "answer", usage |-> Nothing] }

SimpleChatOutcomes == { Return(r) : r \in Responses } \cup { Raise("quota exceeded") }
CompleteChatOutcomes == { Return(r) : r \in Responses } \cup { Raise("upstream 502") }
CreateChatOutcomes ==
    { Return(Some([id |-> "chat-1"])), Return(Nothing), Raise("no session") }

---------------------------------------------------------------------------
(* POST /chat *)

DefaultModel == "glm-4.5v"
DefaultTemperature == 7
DefaultTopP == 9
DefaultMaxTokens == 2000

\* variant: the list is built back to front
ConvertMessagesReversed(msgs) ==
    [i \in 1..Len(msgs) |->
       [role |-> msgs[Len(msgs) + 1 - i].role, content |-> msgs[Len(msgs) + 1 - i].content]]

\* messages = [{"role": msg.role, "content": msg.content} for msg in request.messages]
ConvertMessages(msgs) ==
    [i \in 1..Len(msgs) |-> [role |-> msgs[i].role, content |-> msgs[i].content]]

\* Extract configuration
ExtractConfig(config) ==
    [model           |-> Get(config, "model", DefaultModel),
     enable_thinking |-> Get(config, "enableThinking", TRUE),
     temperature     |-> Get(config, "temperature", DefaultTemperature),
     top_p           |-> Get(config, "topP", DefaultTopP),
     max_tokens      |-> Get(config, "maxTokens", DefaultMaxTokens)]

\* Python truth value of a str-or-None and of a dict-or-None
TruthyStr(s) == s # None /\ s # ""
TruthyDict(d) == d.some /\ DOMAIN d.v # {}

\* variant: the preset is read with the configuration's key names (topP, maxTokens)
ResolvePresetConfigKeys(config) ==
    LET base == ExtractConfig(config)
        preset_name == Get(config, "preset", None)
        preset == IF TruthyStr(preset_name) THEN get_preset(preset_name) ELSE Nothing
    IN  IF TruthyStr(preset_name) /\ TruthyDict(preset)
        THEN [base EXCEPT !.temperature = Get(preset.v, "temperature", @),
                          !.top_p       = Get(preset.v, "topP", @),
                          !.max_tokens  = Get(preset.v, "maxTokens", @)]
        ELSE base

\* Get preset if specified
ResolvePreset(config) ==
    LET base == ExtractConfig(config)
        preset_name == Get(config, "preset", None)
        preset == IF TruthyStr(preset_name) THEN get_preset(preset_name) ELSE Nothing
    IN  IF TruthyStr(preset_name) /\ TruthyDict(preset)
        THEN [base EXCEPT !.temperature = Get(preset.v, "temperature", @),
                          !.top_p       = Get(preset.v, "top_p", @),
                          !.max_tokens  = Get(preset.v, "max_tokens", @)]
        ELSE base

\* variant: the role of the one message is not looked at
UseSimpleChatAnyRole(messages) == Len(messages) = 1

\* if len(messages) == 1 and messages[0]["role"] == "user"
UseSimpleChat(messages) == Len(messages) = 1 /\ messages[1].role = "user"

\* variant: the sampling arguments are not forwarded
SimpleChatArgsNoSampling(messages, p) ==
    [message |-> messages[1].content, model |-> p.model,
     enable_thinking |-> p.enable_thinking, temperature |-> p.temperature]

SimpleChatArgs(messages, p) ==
    [message |-> messages[1].content, model |-> p.model,
     enable_thinking |-> p.enable_thinking, temperature |-> p.temperature,
     top_p |-> p.top_p, max_tokens |-> p.max_tokens]

CreateChatArgs(title, messages, p) ==
    [title |-> title, models |-> <<p.model>>,
     initial_message |-> IF messages # <<>> THEN messages[1].content ELSE "Hello",
     enable_thinking |-> p.enable_thinking]

\* chat.get("id") if chat else <fallback>
ChatId(chat, fallback) ==
    IF TruthyDict(chat) THEN Get(chat.v, "id", None) ELSE fallback

CompleteChatArgs(chat, messages, p) ==
    [chat_id |-> ChatId(chat, None), messages |-> messages, model |-> p.model,
     enable_thinking |-> p.enable_thinking, temperature |-> p.temperature,
     top_p |-> p.top_p, max_tokens |-> p.max_tokens]

Call(op, args, out) == [op |-> op, args |-> args, out |-> out]

\* return ChatResponse(...)
ChatReply(response, p) ==
    [status |-> 200, content |-> response.content,
     thinking |-> Get(response, "thinking", None), model |-> p.model,
     usage |-> Get(response, "usage", Nothing)]

\* variant: the underlying message is not put in the detail
ChatExceptNoMessage(err) == [status |-> 500, detail |-> "Chat completion failed"]

\* except Exception as e: raise HTTPException(500, ...)
ChatExcept(err) == [status |-> 500, detail |-> "Chat completion failed: " \o err]

\* the request's locals once the handler has returned or raised
ChatDone(request, client, calls, reply) ==
    [endpoint |-> "/chat", request |-> request, client |-> client,
     calls |-> calls, reply |-> reply]

ChatCompletion ==
    /\ CanServe
    /\ cur = Idle
    /\ \E request \in ChatRequests, ctorOk \in BOOLEAN :
         LET g == GetZaiClient(ctorOk) IN
           /\ zai_client' = g.zai_client
           /\ constructed' = g.constructed
           /\ IF g.raised
              THEN cur' = ChatDone(request, NoClient, <<>>, ChatExcept(g.err))
              ELSE LET messages == ConvertMessages(request.messages)
                       p == ResolvePreset(request.config)
                   IN  IF UseSimpleChat(messages)
                       THEN \E o \in SimpleChatOutcomes :
                              LET calls == <<Call("simple_chat", SimpleChatArgs(messages, p), o)>>
                              IN  cur' = ChatDone(request, g.ret, calls,
                                           IF o.raised THEN ChatExcept(o.err)
                                           ELSE ChatReply(o.value, p))
                       ELSE \E c \in CreateChatOutcomes :
                              LET first == Call("create_chat",
                                             CreateChatArgs("API Chat Session", messages, p), c)
                              IN  IF c.raised
                                  THEN cur' = ChatDone(request, g.ret, <<first>>, ChatExcept(c.err))
                                  ELSE \E o \in CompleteChatOutcomes :
                                         LET calls == <<first, Call("complete_chat",
                                                          CompleteChatArgs(c.value, messages, p), o)>>
                                         IN  cur' = ChatDone(request, g.ret, calls,
                                                      IF o.raised THEN ChatExcept(o.err)
                                                      ELSE ChatReply(o.value, p))
    /\ UNCHANGED <<started, exited, health>>

\* the reply has been sent and the request's locals are gone
Deliver ==
    /\ cur # Idle
    /\ ~Suspended
    /\ cur' = Idle
    /\ UNCHANGED <<zai_client, constructed, started, exited, health>>

DeliverHealth ==
    /\ health # NoHealth
    /\ health' = NoHealth
    /\ UNCHANGED <<zai_client, constructed, started, exited, cur>>

---------------------------------------------------------------------------
(* POST /chat-stream *)

\* fragments of stream_completion: delta_content and phase are attributes
\* that may be missing; str is what str(chunk) gives
Chunks ==
    { [delta_content |-> "Hel", phase |-> "thinking", str |-> "<chunk>"],
      [str |-> "lo"] }

StreamError == "connection reset"

\* the parameters the streaming handler resolves from the configuration
StreamParams(config) == ExtractConfig(config)

StreamCompletionArgs(chat, messages, p) ==
    [chat_id |-> ChatId(chat, "default"), messages |-> messages, model |-> p.model,
     enable_thinking |-> p.enable_thinking, temperature |-> p.temperature,
     top_p |-> p.top_p, max_tokens |-> p.max_tokens]

\* data = {"delta": ..., "phase": ...}
DeltaEvent(chunk) ==
    [delta |-> IF "delta_content" \in DOMAIN chunk THEN chunk.delta_content ELSE chunk.str,
     phase |-> Get(chunk, "phase", "answer")]

\* error_data = {"error": str(e), "phase": "error"}
ErrorEvent(err) == [error |-> err, phase |-> "error"]

\* variant: generate_stream has no try / except
StreamExceptEscapes(s, err) == [s EXCEPT !.gen = "raised"]

\* except Exception as e (inside generate_stream): yield the error event
StreamExcept(s, err) ==
    [s EXCEPT !.events = Append(@, ErrorEvent(err)), !.gen = "at_error"]

\* except Exception as e (in chat_stream itself)
StreamHandlerExcept(err) == [status |-> 500, detail |-> "Streaming failed: " \o err]

\* chat_stream: returns the StreamingResponse; the generator has not run yet
ChatStream ==
    /\ CanServe
    /\ cur = Idle
    /\ \E request \in ChatRequests, ctorOk \in BOOLEAN :
         LET g == GetZaiClient(ctorOk) IN
           /\ zai_client' = g.zai_client
           /\ constructed' = g.constructed
           /\ cur' = IF g.raised
                     THEN [endpoint |-> "/chat-stream", request |-> request,
                           client |-> NoClient, reply |-> StreamHandlerExcept(g.err),
                           gen |-> "none", calls |-> <<>>, frags |-> <<>>, events |-> <<>>]
                     ELSE [endpoint |-> "/chat-stream", request |-> request,
                           client |-> g.ret, reply |-> [status |-> 200],
                           gen |-> "created", calls |-> <<>>, frags |-> <<>>, events |-> <<>>]
    /\ UNCHANGED <<started, exited, health>>

\* one step of `for chunk in client.stream_completion(...)`: the next fragment,
\* the end of the sequence, or an exception
PullChunk(s) ==
    \/ /\ Len(s.frags) < MaxFrags
       /\ \E chunk \in Chunks :
            cur' = [s EXCEPT !.frags = Append(@, chunk),
                             !.events = Append(@, DeltaEvent(chunk)),
                             !.gen = "at_delta"]
    \/ cur' = [s EXCEPT !.gen = "closed"]
    \/ cur' = StreamExcept(s, StreamError)

\* the transport resumes generate_stream until its next yield or its end
GenResume ==
    /\ started
    /\ health = NoHealth
    /\ cur.endpoint = "/chat-stream"
    /\ \/ /\ cur.gen = "created"
          /\ LET messages == ConvertMessages(cur.request.messages)
                 p == StreamParams(cur.request.config)
             IN  \E c \in CreateChatOutcomes :
                   LET first == Call("create_chat",
                                  CreateChatArgs("Streaming Chat Session", messages, p), c)
                   IN  IF c.raised
                       THEN cur' = StreamExcept([cur EXCEPT !.calls = <<first>>], c.err)
                       ELSE PullChunk([cur EXCEPT !.calls =
                              <<first, Call("stream_completion",
                                          StreamCompletionArgs(c.value, messages, p),
                                          Return(None))>>])
       \/ /\ cur.gen = "at_delta"
          /\ PullChunk(cur)
       \/ /\ cur.gen = "at_error"
          /\ cur' = [cur EXCEPT !.gen = "closed"]
    /\ UNCHANGED <<zai_client, constructed, started, exited, health>>

---------------------------------------------------------------------------
(* GET /tools *)

tools ==
    << "analyzeRepositoryStructure", "searchRepositoryFiles", "getRepositoryInfo",
       "analyzCodeWithLynlang", "compareCodePatterns", "analyzePageContext",
       "extractPageContent", "pythonAnalyzeRepository", "pythonCodeReview" >>

Range(q) == { q[i] : i \in DOMAIN q }

ListTools ==
    /\ CanServe
    /\ cur = Idle
    /\ cur' = [endpoint |-> "/tools",
               reply |-> [tools |-> tools, count |-> Len(tools),
                          presets |-> DOMAIN PresetTable]]
    /\ UNCHANGED <<zai_client, constructed, started, exited, health>>

---------------------------------------------------------------------------
(* POST /execute-tool *)

AdvancedModel == "0727-360B-API"
AnalysisTemperature == 3
ReviewTemperature == 2
GenericTemperature == 7

\* tool names: the three routed ones, a listed one without a route of its own,
\* one that /tools does not list, and one that differs from a routed name in case
ToolNames ==
    { "pythonAnalyzeRepository", "analyzeRepositoryStructure", "pythonCodeReview",
      "searchRepositoryFiles", "deployToProduction", "pythoncodereview" }

ToolInputs ==
    { <<>>,
      [owner |-> "octo", repo |-> "demo"],
      [owner |-> "octo", repo |-> "demo", analysisType |-> "security"],
      [code |-> "x=1", language |-> "python"],
      [code |-> "print(1)", reviewType |-> "security", context |-> "cli entry point"] }

ToolRequests == { [toolName |-> n, input |-> i] : n \in ToolNames, i \in ToolInputs }

\* variant: the name is compared without regard to case
ToolRouteIgnoreCase(tool_name) ==
    IF tool_name \in { "pythonAnalyzeRepository", "analyzeRepositoryStructure" }
    THEN "analysis"
    ELSE IF tool_name \in { "pythonCodeReview", "pythoncodereview" }
         THEN "review"
         ELSE "generic"

\* the if / elif / else on tool_name
ToolRoute(tool_name) ==
    IF tool_name \in { "pythonAnalyzeRepository", "analyzeRepositoryStructure" }
    THEN "analysis"
    ELSE IF tool_name \in { "pythonCodeReview" }
         THEN "review"
         ELSE "generic"

\* json.dumps of the input mapping, keys in a fixed order
InputKeys == << "owner", "repo", "analysisType", "code", "language", "reviewType", "context" >>

RECURSIVE JsonItems(_, _)
JsonItems(d, i) ==
    IF i > Len(InputKeys) THEN ""
    ELSE LET k == InputKeys[i] IN
           (IF k \in DOMAIN d THEN " \"" \o k \o "\": \"" \o d[k] \o "\"," ELSE "")
             \o JsonItems(d, i + 1)

JsonDumps(d) == "{" \o JsonItems(d, 1) \o "}"

\* the prompt each branch builds (the fixed numbered list is abridged)
ToolPrompt(tool_name, tool_input) ==
    LET route == ToolRoute(tool_name) IN
    IF route = "analysis"
    THEN "Analyze the GitHub repository " \o Get(tool_input, "owner", "") \o "/"
           \o Get(tool_input, "repo", "") \o " with focus on "
           \o Get(tool_input, "analysisType", "structure") \o "."
    ELSE IF route = "review"
    THEN LET context_info == Get(tool_input, "context", "") IN
         "Please review this " \o Get(tool_input, "language", "typescript")
           \o " code with focus on " \o Get(tool_input, "reviewType", "comprehensive")
           \o " aspects: " \o (IF context_info # "" THEN "Context: " \o context_info ELSE "")
           \o " Code: " \o Get(tool_input, "code", "")
    ELSE "Help with this development task: Execute " \o tool_name
           \o " with parameters: " \o JsonDumps(tool_input)
           \o ". Please provide practical assistance and guidance."

\* the keyword arguments of the branch's client.simple_chat call
ToolCallArgs(tool_name, tool_input) ==
    LET route == ToolRoute(tool_name) IN
    IF route = "analysis"
    THEN [message |-> ToolPrompt(tool_name, tool_input), model |-> AdvancedModel,
          enable_thinking |-> TRUE, temperature |-> AnalysisTemperature]
    ELSE IF route = "review"
    THEN [message |-> ToolPrompt(tool_name, tool_input), model |-> AdvancedModel,
          enable_thinking |-> TRUE, temperature |-> ReviewTemperature]
    ELSE [message |-> ToolPrompt(tool_name, tool_input), model |-> DefaultModel,
          enable_thinking |-> FALSE, temperature |-> GenericTemperature]

\* getattr(response, 'usage', {}).get('total_tokens', 0) if hasattr(response, 'usage') else 0
TokensUsed(response) ==
    IF "usage" \in DOMAIN response
    THEN IF response.usage.some
         THEN Return(Get(response.usage.v, "total_tokens", 0))
         ELSE Raise("'NoneType' object has no attribute 'get'")
    ELSE Return(0)

AnalysisResult(tool_input, response) ==
    LET used == TokensUsed(response) IN
    IF used.raised THEN used
    ELSE Return([success |-> TRUE, source |-> "zai-python-sdk",
                 repository |-> Get(tool_input, "owner", "") \o "/" \o Get(tool_input, "repo", ""),
                 analysisType |-> Get(tool_input, "analysisType", "structure"),
                 analysis |-> response.content,
                 thinking |-> Get(response, "thinking", None),
                 model |-> AdvancedModel,
                 metadata |-> [tokensUsed |-> used.value]])

\* variant: the length counts a trailing newline
ReviewResultOffByOne(tool_input, response) ==
    Return([success |-> TRUE, review |-> response.content,
            thinking |-> Get(response, "thinking", None),
            language |-> Get(tool_input, "language", "typescript"),
            reviewType |-> Get(tool_input, "reviewType", "comprehensive"),
            model |-> AdvancedModel,
            codeLength |-> Len(Get(tool_input, "code", "")) + 1])

ReviewResult(tool_input, response) ==
    Return([success |-> TRUE, review |-> response.content,
            thinking |-> Get(response, "thinking", None),
            language |-> Get(tool_input, "language", "typescript"),
            reviewType |-> Get(tool_input, "reviewType", "comprehensive"),
            model |-> AdvancedModel,
            codeLength |-> Len(Get(tool_input, "code", ""))])

GenericResult(response) ==
    Return([success |-> TRUE, content |-> response.content, model |-> DefaultModel])

\* the result dict of the branch, or the exception building it raises
ToolResult(tool_name, tool_input, response) ==
    LET route == ToolRoute(tool_name) IN
    IF route = "analysis" THEN AnalysisResult(tool_input, response)
    ELSE IF route = "review" THEN ReviewResult(tool_input, response)
    ELSE GenericResult(response)

\* return ToolExecutionResponse(success=True, ...)
ToolReply(tool_name, result) ==
    [success |-> TRUE, toolName |-> tool_name, result |-> Some(result), error |-> None]

\* variant: the handler re-raises, as /chat does
ToolExceptReraises(tool_name, err) == [raised |-> TRUE, err |-> err]

\* except Exception as e: return ToolExecutionResponse(success=False, ...)
ToolExcept(tool_name, err) ==
    [raised |-> FALSE,
     reply |-> [success |-> FALSE, toolName |-> tool_name, result |-> Nothing, error |-> err]]

ToolDone(request, client, calls, end) ==
    [endpoint |-> "/execute-tool", request |-> request, client |-> client,
     calls |-> calls, end |-> end]

ExecuteTool ==
    /\ CanServe
    /\ cur = Idle
    /\ \E request \in ToolRequests, ctorOk \in BOOLEAN :
         LET g == GetZaiClient(ctorOk)
             tool_name == request.toolName
             tool_input == request.input
         IN
           /\ zai_client' = g.zai_client
           /\ constructed' = g.constructed
           /\ IF g.raised
              THEN cur' = ToolDone(request, NoClient, <<>>, ToolExcept(tool_name, g.err))
              ELSE \E o \in SimpleChatOutcomes :
                     LET calls == <<Call("simple_chat", ToolCallArgs(tool_name, tool_input), o)>>
                         result == IF o.raised THEN o
                                   ELSE ToolResult(tool_name, tool_input, o.value)
                     IN  cur' = ToolDone(request, g.ret, calls,
                                  IF result.raised
                                  THEN ToolExcept(tool_name, result.err)
                                  ELSE [raised |-> FALSE,
                                        reply |-> ToolReply(tool_name, result.value)])
    /\ UNCHANGED <<started, exited, health>>

---------------------------------------------------------------------------
Next ==
    \/ ListTools
    \/ ExecuteTool
    \/ Startup
    \/ HealthCheck
    \/ DeliverHealth
    \/ ChatCompletion
    \/ ChatStream
    \/ GenResume
    \/ Deliver

Spec == Init /\ [][Next]_vars

---------------------------------------------------------------------------
(* Properties *)

IsChat == cur.endpoint = "/chat"
IsStream == cur.endpoint = "/chat-stream"
IsTool == cur.endpoint = "/execute-tool"

CallsOf(op) == { i \in DOMAIN cur.calls : cur.calls[i].op = op }

\* C1: the ZAIClient constructor returns at most once per process; once the
\* global handle is set no step replaces or resets it or constructs again, and
\* every handler that acquires a client holds that one instance.
C1_ClientCreatedOnce ==
    [][ /\ constructed' <= 1
        /\ zai_client # NoClient =>
             /\ zai_client' = zai_client
             /\ constructed' = constructed
        /\ (cur' # cur /\ cur'.endpoint \in { "/chat", "/chat-stream", "/execute-tool" }
              /\ cur'.client # NoClient) => cur'.client = zai_client'
      ]_vars

\* a stream acquired the client and, while it is suspended, /health acquired it again
C1_Witness ==
    /\ IsStream
    /\ cur.gen = "at_delta"
    /\ health.status = "healthy"
    /\ cur.client = zai_client
    /\ constructed = 1

SingleUserMessage ==
    /\ Len(cur.request.messages) = 1
    /\ cur.request.messages[1].role = "user"

\* what the single-turn call of /chat must carry
IsTheSingleTurnCall(call) ==
    LET p == ResolvePreset(cur.request.config) IN
    /\ call.op = "simple_chat"
    /\ call.args = [message |-> cur.request.messages[1].content, model |-> p.model,
                    enable_thinking |-> p.enable_thinking, temperature |-> p.temperature,
                    top_p |-> p.top_p, max_tokens |-> p.max_tokens]

\* C2 as stated: every /chat request with exactly one message, of role "user",
\* issues exactly one simple_chat call with that content and the resolved
\* parameters, and no create_chat or complete_chat call.
C2_Original ==
    (IsChat /\ SingleUserMessage) =>
        /\ Len(cur.calls) = 1
        /\ IsTheSingleTurnCall(cur.calls[1])

\* C2 as amended: such a request never calls create_chat or complete_chat and
\* issues at most one call; when client acquisition succeeds it issues exactly
\* one simple_chat call with that content and the resolved parameters, and when
\* acquisition fails it issues none.
C2_SingleTurn ==
    (IsChat /\ SingleUserMessage) =>
        /\ CallsOf("create_chat") = {}
        /\ CallsOf("complete_chat") = {}
        /\ Len(cur.calls) <= 1
        /\ cur.client # NoClient =>
             /\ Len(cur.calls) = 1
             /\ IsTheSingleTurnCall(cur.calls[1])
        /\ cur.client = NoClient => cur.calls = <<>>

\* a single user message under a preset that overrides parameters, call made
C2_Witness ==
    /\ IsChat
    /\ SingleUserMessage
    /\ Get(cur.request.config, "preset", None) = "full"
    /\ Len(cur.calls) = 1
    /\ cur.reply.status = 200

\* C3: in a /chat request with two or more messages, a complete_chat call is
\* preceded by a create_chat call that returned, and carries as many messages
\* as the request, with the same role and content at every position.
C3_SessionBeforeCompletion ==
    (IsChat /\ Len(cur.request.messages) >= 2) =>
        \A i \in CallsOf("complete_chat") :
            /\ i = 2
            /\ cur.calls[1].op = "create_chat"
            /\ ~cur.calls[1].out.raised
            /\ Len(cur.calls[i].args.messages) = Len(cur.request.messages)
            /\ \A j \in DOMAIN cur.request.messages :
                 /\ cur.calls[i].args.messages[j].role = cur.request.messages[j].role
                 /\ cur.calls[i].args.messages[j].content = cur.request.messages[j].content

\* two different messages, session created, completion called
C3_Witness ==
    /\ IsChat
    /\ Len(cur.request.messages) = 2
    /\ cur.request.messages[1] # cur.request.messages[2]
    /\ CallsOf("complete_chat") = { 2 }

\* the sampling parameters /chat must pass, stated from the configuration and
\* the preset table
Expected(config, configKey, presetKey, default) ==
    LET name == Get(config, "preset", None)
        preset == IF name \in DOMAIN PresetTable THEN PresetTable[name] ELSE <<>>
    IN  IF presetKey \in DOMAIN preset THEN preset[presetKey]
        ELSE Get(config, configKey, default)

\* C4: in /chat, an unknown preset name makes no request fail (a failure comes
\* only from client acquisition or from a call that raised); the temperature,
\* top-p and max-tokens passed to the client are the preset's value where the
\* preset is found and contains the parameter, and otherwise the configuration's
\* value, or 0.7 / 0.9 / 2000 when the configuration has none.
C4_PresetResolution ==
    IsChat =>
        /\ \A i \in CallsOf("simple_chat") \cup CallsOf("complete_chat") :
             /\ cur.calls[i].args.temperature =
                  Expected(cur.request.config, "temperature", "temperature", 7)
             /\ cur.calls[i].args.top_p =
                  Expected(cur.request.config, "topP", "top_p", 9)
             /\ cur.calls[i].args.max_tokens =
                  Expected(cur.request.config, "maxTokens", "max_tokens", 2000)
        /\ (cur.reply.status = 500 /\ cur.client # NoClient) =>
             /\ cur.calls # <<>>
             /\ cur.calls[Len(cur.calls)].out.raised

\* a preset that overrides top-p but not max-tokens, on a configuration that
\* sets both
C4_Witness ==
    /\ IsChat
    /\ Get(cur.request.config, "preset", None) = "creative"
    /\ { "topP", "maxTokens" } \subseteq DOMAIN cur.request.config
    /\ CallsOf("complete_chat") # {}

\* an unknown preset name, parameters from the caller, reply 200
C4_WitnessUnknown ==
    /\ IsChat
    /\ Get(cur.request.config, "preset", None) = "nope"
    /\ "temperature" \in DOMAIN cur.request.config
    /\ cur.reply.status = 200

\* C5: execute_tool always returns a ToolExecutionResponse, never raises: the
\* reply echoes the request's tool name and is either success with a result and
\* no error, or failure with an error string and no result.
C5_ToolDispatchTotal ==
    IsTool =>
        /\ ~cur.end.raised
        /\ cur.end.reply.toolName = cur.request.toolName
        /\ \/ /\ cur.end.reply.success
              /\ cur.end.reply.result.some
              /\ cur.end.reply.error = None
           \/ /\ ~cur.end.reply.success
              /\ ~cur.end.reply.result.some
              /\ cur.end.reply.error # None

\* the call returned and building the result raised: still a failure reply
C5_Witness ==
    /\ IsTool
    /\ Len(cur.calls) = 1
    /\ ~cur.calls[1].out.raised
    /\ ~cur.end.raised
    /\ ~cur.end.reply.success

IsErrorEvent(e) == "error" \in DOMAIN e

\* C6: the events of a stream are one delta event per fragment consumed, in
\* order, followed by at most one error event, which is the last event; no
\* exception leaves the generator; a closed generator emitted either the deltas
\* alone or the deltas and one final error event.
C6_StreamEndsOnce ==
    IsStream =>
        LET n == Len(cur.frags)
            ev == cur.events
        IN  /\ cur.gen # "raised"
            /\ Len(ev) \in { n, n + 1 }
            /\ \A i \in 1..n :
                 /\ ~IsErrorEvent(ev[i])
                 /\ ev[i].delta = (IF "delta_content" \in DOMAIN cur.frags[i]
                                   THEN cur.frags[i].delta_content ELSE cur.frags[i].str)
                 /\ ev[i].phase = (IF "phase" \in DOMAIN cur.frags[i]
                                   THEN cur.frags[i].phase ELSE "answer")
            /\ Len(ev) = n + 1 =>
                 /\ IsErrorEvent(ev[n + 1])
                 /\ ev[n + 1].phase = "error"
                 /\ cur.gen \in { "at_error", "closed" }
            /\ cur.gen = "at_error" => Len(ev) = n + 1
            /\ cur.gen \in { "none", "created" } => ev = <<>>

\* a fragment was delivered, then the sequence raised, and the generator ended
C6_Witness ==
    /\ IsStream
    /\ cur.gen = "closed"
    /\ Len(cur.frags) = 1
    /\ Len(cur.events) = 2
    /\ IsErrorEvent(cur.events[2])

\* a stream that completed naturally after two fragments
C6_WitnessNatural ==
    /\ IsStream
    /\ cur.gen = "closed"
    /\ Len(cur.frags) = 2
    /\ Len(cur.events) = 2

\* C7: the model, thinking flag, temperature, top-p and max-tokens that
\* /chat-stream passes to the client are the ones /chat passes for the same
\* messages and configuration.
C7_StreamNormalizesAsChat ==
    IsStream =>
        LET p == ResolvePreset(cur.request.config) IN
        /\ \A i \in CallsOf("create_chat") :
             /\ cur.calls[i].args.models = <<p.model>>
             /\ cur.calls[i].args.enable_thinking = p.enable_thinking
        /\ \A i \in CallsOf("stream_completion") :
             /\ cur.calls[i].args.model = p.model
             /\ cur.calls[i].args.enable_thinking = p.enable_thinking
             /\ cur.calls[i].args.temperature = p.temperature
             /\ cur.calls[i].args.top_p = p.top_p
             /\ cur.calls[i].args.max_tokens = p.max_tokens

\* what execute_tool must pass for a tool name
ToolModelAndTemperature(name) ==
    IF name = "pythonAnalyzeRepository" \/ name = "analyzeRepositoryStructure"
    THEN <<"0727-360B-API", 3>>
    ELSE IF name = "pythonCodeReview"
         THEN <<"0727-360B-API", 2>>
         ELSE <<"glm-4.5v", 7>>

IsOtherTool(name) ==
    name \notin { "pythonAnalyzeRepository", "analyzeRepositoryStructure", "pythonCodeReview" }

\* C8 as stated: every execute_tool request makes exactly one simple_chat call,
\* with the model and temperature its exact tool name selects; any other name
\* whose call returns yields success with generic content.
C8_Original ==
    IsTool =>
        /\ Len(cur.calls) = 1
        /\ cur.calls[1].op = "simple_chat"
        /\ <<cur.calls[1].args.model, cur.calls[1].args.temperature>> =
             ToolModelAndTemperature(cur.request.toolName)

\* C8 as amended: an execute_tool request makes at most one call, none when
\* client acquisition fails and exactly one simple_chat call otherwise, with the
\* model and temperature its exact tool name selects; any other name whose call
\* returns yields success with generic content.
C8_ToolRouting ==
    IsTool =>
        /\ cur.client = NoClient => cur.calls = <<>>
        /\ cur.client # NoClient =>
             /\ Len(cur.calls) = 1
             /\ cur.calls[1].op = "simple_chat"
             /\ <<cur.calls[1].args.model, cur.calls[1].args.temperature>> =
                  ToolModelAndTemperature(cur.request.toolName)
             /\ (IsOtherTool(cur.request.toolName) /\ ~cur.calls[1].out.raised) =>
                  /\ ~cur.end.raised
                  /\ cur.end.reply.success
                  /\ cur.end.reply.result.v.content = cur.calls[1].out.value.content
                  /\ cur.end.reply.result.v.model = "glm-4.5v"

\* a name /tools does not list, served with generic content
C8_Witness ==
    /\ IsTool
    /\ cur.request.toolName \notin Range(tools)
    /\ Len(cur.calls) = 1
    /\ cur.end.reply.success

\* a name that differs from a routed one only in case, served
C8_WitnessNearMiss ==
    /\ IsTool
    /\ cur.request.toolName = "pythoncodereview"
    /\ Len(cur.calls) = 1
    /\ cur.end.reply.success

IsTheReviewExample ==
    /\ IsTool
    /\ cur.request.toolName = "pythonCodeReview"
    /\ cur.request.input = [code |-> "x=1", language |-> "python"]
    /\ Len(cur.calls) = 1
    /\ ~cur.calls[1].out.raised

\* C9 as stated: a pythonCodeReview of code "x=1" in language "python" whose
\* call returns answers success with language "python" and codeLength 4.
C9_Original ==
    IsTheReviewExample =>
        /\ cur.end.reply.success
        /\ cur.end.reply.result.v.language = "python"
        /\ cur.end.reply.result.v.codeLength = 4

\* C9 as amended: the same request answers success with language "python" and
\* codeLength 3, the number of characters of "x=1".
C9_ReviewExample ==
    IsTheReviewExample =>
        /\ cur.end.reply.success
        /\ cur.end.reply.result.v.language = "python"
        /\ cur.end.reply.result.v.codeLength = 3

C9_Witness ==
    /\ IsTheReviewExample
    /\ cur.end.reply.success
    /\ cur.end.reply.result.v.review = "answer"

\* C10: in /chat a failure of client acquisition or of a call ends the request
\* with status 500 and a detail that ends with the failure's message; a call
\* that raised is the last call; a request makes at most one simple_chat call or
\* at most one create_chat and one complete_chat call, never both kinds, and no
\* complete_chat call after a create_chat call that raised.
C10_ChatFailure ==
    IsChat =>
        /\ cur.client = NoClient =>
             /\ cur.calls = <<>>
             /\ cur.reply = [status |-> 500, detail |-> "Chat completion failed: auth failed"]
        /\ \A i \in DOMAIN cur.calls :
             cur.calls[i].out.raised =>
               /\ i = Len(cur.calls)
               /\ cur.reply.status = 500
               /\ cur.reply.detail = "Chat completion failed: " \o cur.calls[i].out.err
        /\ Cardinality(CallsOf("simple_chat")) <= 1
        /\ Cardinality(CallsOf("create_chat")) <= 1
        /\ Cardinality(CallsOf("complete_chat")) <= 1
        /\ CallsOf("simple_chat") # {} => Len(cur.calls) = 1
        /\ \A i \in CallsOf("create_chat") :
             cur.calls[i].out.raised => CallsOf("complete_chat") = {}

\* create_chat raised: one call, status 500
C10_Witness ==
    /\ IsChat
    /\ Len(cur.calls) = 1
    /\ cur.calls[1].op = "create_chat"
    /\ cur.calls[1].out.raised
    /\ cur.reply.status = 500

AcquiresClient == cur.endpoint \in { "/chat", "/chat-stream", "/execute-tool" }

\* in every state: the process is alive; the handle is unset exactly while no
\* construction has succeeded; a request whose acquisition failed left the
\* handle unset; a /health reply is unhealthy with the error text, the handle
\* unset, or healthy with client_ready true, the handle set
C11_State ==
    /\ ~exited
    /\ (zai_client = NoClient) <=> (constructed = 0)
    /\ (AcquiresClient /\ cur.client = NoClient) => zai_client = NoClient
    /\ health.status \in { "none", "healthy", "unhealthy" }
    /\ health.status = "unhealthy" =>
         /\ health.error = "auth failed"
         /\ zai_client = NoClient
    /\ health.status = "healthy" =>
         /\ health.client_ready
         /\ zai_client # NoClient

\* in every step: startup ends with the service running whether or not the
\* constructor raised; a handler that finds the handle unset either constructs
\* and holds the new instance, or fails and leaves the handle unset; a /health
\* reply is unhealthy exactly when the handle is unset after its attempt, and
\* healthy otherwise
C11_Step ==
    /\ ~started => started'
    /\ (zai_client = NoClient /\ cur = Idle /\ cur' # Idle
          /\ cur'.endpoint \in { "/chat", "/chat-stream", "/execute-tool" }) =>
         IF cur'.client # NoClient
         THEN constructed' = constructed + 1 /\ zai_client' = cur'.client
         ELSE constructed' = constructed /\ zai_client' = NoClient
    /\ (health = NoHealth /\ health' # NoHealth) =>
         /\ health'.status = "unhealthy" <=> zai_client' = NoClient
         /\ health'.status = "healthy" <=> zai_client' # NoClient

\* C11: a constructor failure, at startup or in a request, never ends the
\* process and leaves the global handle unset, so that the next handler
\* constructs again; /health always gives a structured reply, unhealthy with
\* the error text exactly when its own attempt failed, and healthy with
\* client_ready true exactly when the handle is set when the reply is built.
C11_DegradedNotDead == [](C11_State) /\ [][C11_Step]_vars

\* startup failed, the service runs, and the /health re-attempt failed too
C11_Witness ==
    /\ started
    /\ ~exited
    /\ zai_client = NoClient
    /\ health.status = "unhealthy"

\* the session /chat must open and the completion it must then ask for
SeedOfSession ==
    IF cur.request.messages = <<>> THEN "Hello" ELSE cur.request.messages[1].content

IsTheSessionCall(call) ==
    /\ call.op = "create_chat"
    /\ call.args.initial_message = SeedOfSession

IsTheFullCompletion(call) ==
    /\ call.op = "complete_chat"
    /\ Len(call.args.messages) = Len(cur.request.messages)
    /\ \A j \in DOMAIN cur.request.messages :
         /\ call.args.messages[j].role = cur.request.messages[j].role
         /\ call.args.messages[j].content = cur.request.messages[j].content

\* C12 as stated: a /chat request makes the single-turn call if and only if it
\* has exactly one message, of role "user"; every other request creates a
\* session seeded with the first message's content, or with "Hello" when it has
\* no message, and then issues one complete_chat call with the full list.
C12_Original ==
    IsChat =>
        /\ CallsOf("simple_chat") # {} <=> SingleUserMessage
        /\ ~SingleUserMessage =>
             /\ Len(cur.calls) = 2
             /\ IsTheSessionCall(cur.calls[1])
             /\ IsTheFullCompletion(cur.calls[2])

\* C12 as amended: a /chat request whose client acquisition succeeds makes the
\* single-turn call if and only if it has exactly one message, of role "user";
\* every other such request creates a session seeded with the first message's
\* content, or with "Hello" when it has no message, and, when create_chat
\* returns, then issues one complete_chat call with the full list; when
\* create_chat raises it issues no further call, and a request whose client
\* acquisition fails issues no call.
C12_PathSelection ==
    IsChat =>
        /\ cur.client = NoClient => cur.calls = <<>>
        /\ cur.client # NoClient =>
             /\ CallsOf("simple_chat") # {} <=> SingleUserMessage
             /\ ~SingleUserMessage =>
                  /\ cur.calls # <<>>
                  /\ IsTheSessionCall(cur.calls[1])
                  /\ IF cur.calls[1].out.raised
                     THEN Len(cur.calls) = 1
                     ELSE /\ Len(cur.calls) = 2
                          /\ IsTheFullCompletion(cur.calls[2])

\* no message at all: a session seeded with "Hello", then a completion with
\* the empty list
C12_Witness ==
    /\ IsChat
    /\ cur.request.messages = <<>>
    /\ Len(cur.calls) = 2
    /\ cur.calls[1].args.initial_message = "Hello"
    /\ cur.calls[2].args.messages = <<>>

\* one message whose role is not "user": a session, not the single-turn call
C12_WitnessOneAssistant ==
    /\ IsChat
    /\ Len(cur.request.messages) = 1
    /\ cur.request.messages[1].role = "assistant"
    /\ Len(cur.calls) = 2
    /\ cur.calls[1].args.initial_message = "yo"
=============================================================================
